---- MODULE Spec2Model ----
(***************************************************************************)
(* The store-rating backend: the Express handlers of backend/index.js      *)
(* (register, login, update-password, create-store) over the MySQL schema  *)
(* of the Prisma migrations (User, Store, Rating with their unique indexes *)
(* and foreign keys).                                                      *)
(*                                                                         *)
(* Each handler is cut at its await points: between two awaits a handler   *)
(* runs without interleaving (one event loop), every database statement is *)
(* atomic.  A JSON body field is a JavaScript value, [t |-> type, v |->    *)
(* the characters of String(value)]; a string is the sequence of its       *)
(* characters.  Timestamps (createdAt, updatedAt) are not modelled.        *)
(***************************************************************************)
EXTENDS Integers, Sequences, FiniteSets, TLC

VARIABLES
    users,        \* rows of table User
    stores,       \* rows of table Store
    ratings,      \* rows of table Rating
    nextUserId,   \* AUTO_INCREMENT of User.id
    nextStoreId,  \* AUTO_INCREMENT of Store.id
    nextRatingId, \* AUTO_INCREMENT of Rating.id
    roleEnum,     \* the values column User.role accepts (which migrations ran)
    conns,        \* the requests the server holds: one record per connection
    alive,        \* the node process is running
    dbResult      \* outcome of the last SQL statement issued directly

vars == <<users, stores, ratings, nextUserId, nextStoreId, nextRatingId,
          roleEnum, conns, alive, dbResult>>

dbVars == <<users, stores, ratings, nextUserId, nextStoreId, nextRatingId>>

-----------------------------------------------------------------------------
(* Bounds of the model *)

MaxConns == 2
MaxUserId == 2
MaxStoreId == 2
MaxRatingId == 2
MaxPad == 17

Conns == 1..MaxConns

-----------------------------------------------------------------------------
(* JavaScript values of a JSON body *)

Str(s) == [t |-> "string", v |-> s]
Num(digits) == [t |-> "number", v |-> digits]
Arr1(s) == [t |-> "array", v |-> s]
Undefined == [t |-> "undefined", v |-> <<>>]

\* !x is false for a non-empty string, a non-zero number, any array
Truthy(x) ==
    \/ x.t = "string" /\ x.v # <<>>
    \/ x.t = "number" /\ x.v # <<"0">>
    \/ x.t = "array"

IsString(x) == x.t = "string"

\* String(x), as RegExp.prototype.test coerces its argument
JsString(x) == IF x.t = "undefined" THEN <<"u","n","d","e","f","i","n","e","d">> ELSE x.v

-----------------------------------------------------------------------------
(* Characters *)

UpperChars == {"A","B","C","D","E","F","G","H","I","J","K","L","M",
               "N","O","P","Q","R","S","T","U","V","W","X","Y","Z"}

LowerOfUpper ==
    [c \in UpperChars |->
        CASE c = "A" -> "a" [] c = "B" -> "b" [] c = "C" -> "c" [] c = "D" -> "d"
          [] c = "E" -> "e" [] c = "F" -> "f" [] c = "G" -> "g" [] c = "H" -> "h"
          [] c = "I" -> "i" [] c = "J" -> "j" [] c = "K" -> "k" [] c = "L" -> "l"
          [] c = "M" -> "m" [] c = "N" -> "n" [] c = "O" -> "o" [] c = "P" -> "p"
          [] c = "Q" -> "q" [] c = "R" -> "r" [] c = "S" -> "s" [] c = "T" -> "t"
          [] c = "U" -> "u" [] c = "V" -> "v" [] c = "W" -> "w" [] c = "X" -> "x"
          [] c = "Y" -> "y" [] c = "Z" -> "z"]

\* the class [!@#$%^&*(),.?":{}|<>] of passwordRegex
SpecialChars == {"!","@","#","$","%","^","&","*","(",")",",",".","?","\"",
                 ":","{","}","|","<",">"}

\* the characters "." does not match (U+2028 and U+2029 behave the same)
LineTerminators == {"\n", "\r"}

\* equality of VARCHAR values under the tables' collation utf8mb4_unicode_ci:
\* letters compare without case
CollationKey(s) ==
    [i \in DOMAIN s |-> IF s[i] \in UpperChars THEN LowerOfUpper[s[i]] ELSE s[i]]

-----------------------------------------------------------------------------
(* passwordRegex = /^(?=.*[A-Z])(?=.*[!@#$%^&*(),.?":{}|<>]).{8,16}$/ *)

PasswordMinLen == 8
PasswordMaxLen == 16

\* (?=.*[class]) at position 0: a character of the class preceded only by
\* characters "." matches
Lookahead(s, class) ==
    \E i \in 1..Len(s) :
        /\ s[i] \in class
        /\ \A j \in 1..(i - 1) : s[j] \notin LineTerminators

\* the quantifier written {8,17}
DotRun_OneMore(s) ==
    /\ Len(s) >= 8
    /\ Len(s) <= 17
    /\ \A i \in 1..Len(s) : s[i] \notin LineTerminators

\* ^ ... .{8,16}$ : the whole input is 8 to 16 characters "." matches
DotRun(s) ==
    /\ Len(s) >= PasswordMinLen
    /\ Len(s) <= PasswordMaxLen
    /\ \A i \in 1..Len(s) : s[i] \notin LineTerminators

\* passwordRegex.test(x)
PasswordRegexTest(x) ==
    LET s == JsString(x) IN
        /\ Lookahead(s, UpperChars)
        /\ Lookahead(s, SpecialChars)
        /\ DotRun(s)

-----------------------------------------------------------------------------
(* bcrypt *)

BcryptRounds == 10
BcryptMaxBytes == 72

NoHash == [alg |-> "none", rounds |-> 0, salt |-> 0, key |-> <<>>]

Salts == {1, 2}

\* bcrypt reads at most 72 bytes of the data
BcryptKey(s) == SubSeq(s, 1, IF Len(s) < BcryptMaxBytes THEN Len(s) ELSE BcryptMaxBytes)

\* bcrypt.hash and bcrypt.compare reject data that is no string
BcryptRejects(x) == ~IsString(x)

\* bcrypt.hash(x, 10) with the salt it drew
BcryptHash(x, salt) ==
    [alg |-> "bcrypt", rounds |-> BcryptRounds, salt |-> salt, key |-> BcryptKey(x.v)]

\* bcrypt.compare(x, hash)
BcryptCompare(x, hash) == hash.alg = "bcrypt" /\ hash.key = BcryptKey(x.v)

-----------------------------------------------------------------------------
(* Sample strings of the request bodies *)

EmailA == <<"a","@","x">>
EmailAUpper == <<"A","@","x">>
EmailB == <<"b","@","x">>

PwE2E == <<"A","b","c","!","2","3","4","5">>
PwWeak == <<"a","b","c","d","e","f","g","h">>
PwStrong == <<"A","b","c","d","e","f","g","!">>
Digits8 == <<"1","2","3","4","5","6","7","8">>

RoleUser == <<"U","S","E","R">>
RoleAdmin == <<"A","D","M","I","N">>
RoleStoreOwner == <<"S","T","O","R","E","_","O","W","N","E","R">>
RoleSystemAdmin == <<"S","Y","S","T","E","M","_","A","D","M","I","N">>
RoleNormalUser == <<"N","O","R","M","A","L","_","U","S","E","R">>

\* ENUM('ADMIN', 'USER', 'STORE_OWNER') of CREATE TABLE User
RoleEnumCreated == {RoleAdmin, RoleUser, RoleStoreOwner}
\* ENUM('SYSTEM_ADMIN', 'NORMAL_USER', 'STORE_OWNER') of ALTER TABLE user
RoleEnumAltered == {RoleSystemAdmin, RoleNormalUser, RoleStoreOwner}

-----------------------------------------------------------------------------
(* Tables *)

NoOwner == 0

NoUser == [id |-> 0, name |-> <<>>, email |-> <<>>, password |-> NoHash,
           address |-> Undefined, role |-> <<>>]

\* the User rows a WHERE email = e selects
UsersByEmail(e) == {u \in users : CollationKey(u.email) = CollationKey(e)}

\* UNIQUE INDEX User_email_key(email)
UserEmailTaken(e) == UsersByEmail(e) # {}

\* the value is one of the column's ENUM
RoleAccepted(r) == r \in roleEnum

\* FOREIGN KEY Store.ownerId REFERENCES User(id); NULL is no reference
OwnerExists(o) == o = NoOwner \/ \E u \in users : u.id = o

\* the unique index on (userId, storeId) left out
RatingPairTaken_NoIndex(u, s) == FALSE

\* UNIQUE INDEX Rating_userId_storeId_key(userId, storeId)
RatingPairTaken(u, s) == \E r \in ratings : r.userId = u /\ r.storeId = s

-----------------------------------------------------------------------------
(* Requests and responses *)

TokenTtlSeconds == 3600

NoToken == [userId |-> 0, role |-> <<>>, expiresIn |-> 0]

\* jwt.sign({ userId: user.id, role: user.role }, JWT_SECRET, { expiresIn: '1h' })
JwtSign(user) == [userId |-> user.id, role |-> user.role, expiresIn |-> TokenTtlSeconds]

NoStore == [id |-> 0, name |-> <<>>, ownerId |-> NoOwner]

Res(status, message, token, user) ==
    [status |-> status, message |-> message, token |-> token, user |-> user,
     store |-> NoStore]

NoRes == Res(0, "", NoToken, NoUser)

NoBody == [name |-> Undefined, email |-> Undefined, password |-> Undefined,
           newPassword |-> Undefined, address |-> Undefined, role |-> Undefined,
           ownerId |-> NoOwner]

IdleConn == [kind |-> "none", body |-> NoBody, pc |-> "idle", hash |-> NoHash,
             user |-> NoUser, res |-> NoRes]

\* a connection a new request can arrive on
Free(c) == conns[c].pc \in {"idle", "done"}

Start(kind, body, pc) == [IdleConn EXCEPT !.kind = kind, !.body = body, !.pc = pc]

\* res.status(...).json(...): the handler returns, its locals are gone
Answer(conn, res) ==
    [conn EXCEPT !.pc = "done", !.res = res, !.hash = NoHash, !.user = NoUser]

\* the role is taken from the body when it has one
RegisterRole_FromBody(body) == IF IsString(body.role) THEN body.role.v ELSE RoleUser

\* the role register writes, whatever req.body.role is
RegisterRole(body) == RoleUser

\* !name || !email || !password
RegisterMissing(body) ==
    ~Truthy(body.name) \/ ~Truthy(body.email) \/ ~Truthy(body.password)

\* !email || !newPassword
UpdateMissing(body) == ~Truthy(body.email) \/ ~Truthy(body.newPassword)

-----------------------------------------------------------------------------
(* The request bodies the clients send *)

RegBody(n, e, p, a, r) ==
    [NoBody EXCEPT !.name = n, !.email = e, !.password = p, !.address = a, !.role = r]

\* two bodies for one email up to case, a second email, a password that is
\* no string, and one body per missing field
RegisterBodies ==
    {RegBody(Str(<<"A">>), Str(EmailA), Str(PwE2E), Undefined, Undefined),
     RegBody(Str(<<"B">>), Str(EmailAUpper), Str(PwWeak), Str(<<"x">>), Str(RoleAdmin)),
     RegBody(Str(<<"B">>), Str(EmailB), Str(PwWeak), Undefined, Str(RoleAdmin)),
     RegBody(Str(<<"A">>), Str(EmailB), Num(Digits8), Undefined, Undefined),
     RegBody(Undefined, Str(EmailA), Str(PwE2E), Undefined, Undefined),
     RegBody(Str(<<"A">>), Undefined, Str(PwE2E), Undefined, Undefined),
     RegBody(Str(<<"A">>), Str(EmailA), Undefined, Undefined, Undefined)}

LoginBody(e, p) == [NoBody EXCEPT !.email = e, !.password = p]

LoginBodies ==
    {LoginBody(e, p) : e \in {Str(EmailAUpper), Str(EmailB)},
                       p \in {Undefined, Str(PwE2E), Str(PwWeak), Str(PwStrong)}}
    \cup {LoginBody(Undefined, Str(PwE2E))}

UpdateBody(e, p) == [NoBody EXCEPT !.email = e, !.newPassword = p]

UpdateBodies ==
    {UpdateBody(Str(EmailA), p) :
        p \in {Undefined, Str(PwStrong), Str(PwWeak), Arr1(PwStrong)}}
    \cup {UpdateBody(Undefined, Str(PwStrong))}

StoreBody(n, o) == [NoBody EXCEPT !.name = n, !.ownerId = o]

StoreBodies ==
    {StoreBody(Str(<<"S">>), o) : o \in 0..MaxUserId} \cup {StoreBody(Undefined, NoOwner)}

-----------------------------------------------------------------------------
(* POST /api/register *)

\* the request arrives: validation, then bcrypt.hash is awaited
RecvRegister(c, body) ==
    /\ alive
    /\ Free(c)
    /\ conns' = [conns EXCEPT ![c] =
          IF RegisterMissing(body)
          THEN Answer(Start("register", body, "idle"),
                      Res(400, "Name, email, and password are required.", NoToken, NoUser))
          ELSE Start("register", body, "hash")]
    /\ UNCHANGED <<dbVars, roleEnum, alive, dbResult>>

\* bcrypt.hash settles.  It is awaited before the try block: a rejection leaves
\* the async handler as a rejected promise nothing of index.js handles.  What
\* then happens is the runtime's choice: the connection gets no response, the
\* process ends on the unhandled rejection, or the framework answers 500.
RegisterHashed(c) ==
    /\ alive
    /\ conns[c].kind = "register"
    /\ conns[c].pc = "hash"
    /\ IF BcryptRejects(conns[c].body.password)
       THEN \/ /\ conns' = [conns EXCEPT ![c].pc = "unhandled"]
               /\ alive' \in {TRUE, FALSE}
            \/ /\ conns' = [conns EXCEPT ![c] =
                      Answer(@, Res(500, "Internal Server Error", NoToken, NoUser))]
               /\ alive' = alive
       ELSE /\ \E salt \in Salts :
                  conns' = [conns EXCEPT ![c].pc = "create",
                                         ![c].hash = BcryptHash(conns[c].body.password, salt)]
            /\ alive' = alive
    /\ UNCHANGED <<dbVars, roleEnum, dbResult>>

\* the row prisma.user.create inserts
RegisterRow(conn, id) ==
    [id |-> id, name |-> conn.body.name.v, email |-> conn.body.email.v,
     password |-> conn.hash, address |-> conn.body.address,
     role |-> RegisterRole(conn.body)]

\* the unique index on email is not consulted
RegisterInsertFails_NoUniqueIndex(conn) == ~RoleAccepted(RegisterRole(conn.body))

\* the INSERT fails: the role is outside the column's ENUM, or the email is taken
RegisterInsertFails(conn) ==
    \/ ~RoleAccepted(RegisterRole(conn.body))
    \/ UserEmailTaken(conn.body.email.v)

\* prisma.user.create settles: 201 with the row, or the catch block's 500
RegisterCreate(c) ==
    /\ alive
    /\ conns[c].kind = "register"
    /\ conns[c].pc = "create"
    /\ IF RegisterInsertFails(conns[c])
       THEN /\ conns' = [conns EXCEPT ![c] =
                  Answer(@, Res(500, "An error occurred during registration.", NoToken, NoUser))]
            /\ UNCHANGED <<users, nextUserId>>
       ELSE /\ nextUserId <= MaxUserId
            /\ LET row == RegisterRow(conns[c], nextUserId) IN
                  /\ users' = users \cup {row}
                  /\ conns' = [conns EXCEPT ![c] =
                        Answer(@, Res(201, "User registered successfully", NoToken, row))]
            /\ nextUserId' = nextUserId + 1
    /\ UNCHANGED <<stores, ratings, nextStoreId, nextRatingId, roleEnum, alive, dbResult>>

-----------------------------------------------------------------------------
(* POST /api/login *)

\* the request arrives: prisma.user.findUnique is awaited
RecvLogin(c, body) ==
    /\ alive
    /\ Free(c)
    /\ conns' = [conns EXCEPT ![c] = Start("login", body, "find")]
    /\ UNCHANGED <<dbVars, roleEnum, alive, dbResult>>

\* findUnique({ where: { email } }) throws when email is no string
FindRejects(body) == ~IsString(body.email)

\* findUnique settles: 500 from the catch block, 401 without a row, or
\* bcrypt.compare is awaited with the row read
LoginFind(c) ==
    /\ alive
    /\ conns[c].kind = "login"
    /\ conns[c].pc = "find"
    /\ conns' = [conns EXCEPT ![c] =
          IF FindRejects(@.body)
          THEN Answer(@, Res(500, "An error occurred during login.", NoToken, NoUser))
          ELSE IF UsersByEmail(@.body.email.v) = {}
          THEN Answer(@, Res(401, "Invalid credentials.", NoToken, NoUser))
          ELSE [@ EXCEPT !.pc = "compare",
                         !.user = CHOOSE u \in UsersByEmail(conns[c].body.email.v) : TRUE]]
    /\ UNCHANGED <<dbVars, roleEnum, alive, dbResult>>

\* bcrypt.compare settles: 500 from the catch block when it rejects, 401 when
\* the password does not match, else 200 with the token
LoginCompare(c) ==
    /\ alive
    /\ conns[c].kind = "login"
    /\ conns[c].pc = "compare"
    /\ conns' = [conns EXCEPT ![c] =
          IF BcryptRejects(@.body.password)
          THEN Answer(@, Res(500, "An error occurred during login.", NoToken, NoUser))
          ELSE IF ~BcryptCompare(@.body.password, @.user.password)
          THEN Answer(@, Res(401, "Invalid credentials.", NoToken, NoUser))
          ELSE Answer(@, Res(200, "Login successful", JwtSign(@.user), @.user))]
    /\ UNCHANGED <<dbVars, roleEnum, alive, dbResult>>

-----------------------------------------------------------------------------
(* POST /api/update-password *)

\* the request arrives: the two validations, then bcrypt.hash is awaited
RecvUpdatePassword(c, body) ==
    /\ alive
    /\ Free(c)
    /\ conns' = [conns EXCEPT ![c] =
          IF UpdateMissing(body)
          THEN Answer(Start("updatePassword", body, "idle"),
                      Res(400, "Email and new password are required.", NoToken, NoUser))
          ELSE IF ~PasswordRegexTest(body.newPassword)
          THEN Answer(Start("updatePassword", body, "idle"),
                      Res(400, "Password does not meet the security requirements.",
                          NoToken, NoUser))
          ELSE Start("updatePassword", body, "hash")]
    /\ UNCHANGED <<dbVars, roleEnum, alive, dbResult>>

\* bcrypt.hash settles, inside the try block: a rejection is answered 500
UpdateHashed(c) ==
    /\ alive
    /\ conns[c].kind = "updatePassword"
    /\ conns[c].pc = "hash"
    /\ IF BcryptRejects(conns[c].body.newPassword)
       THEN conns' = [conns EXCEPT ![c] =
                Answer(@, Res(500, "Failed to update password.", NoToken, NoUser))]
       ELSE \E salt \in Salts :
                conns' = [conns EXCEPT ![c].pc = "update",
                                       ![c].hash = BcryptHash(conns[c].body.newPassword, salt)]
    /\ UNCHANGED <<dbVars, roleEnum, alive, dbResult>>

\* the UPDATE without its WHERE clause
UpdatedUsers_AllRows(e, hash) == {[u EXCEPT !.password = hash] : u \in users}

\* the rows after UPDATE User SET password = hash WHERE email = e
UpdatedUsers(e, hash) ==
    {IF u \in UsersByEmail(e) THEN [u EXCEPT !.password = hash] ELSE u : u \in users}

\* prisma.user.update settles: it throws when no row has the email
UpdateWrite(c) ==
    /\ alive
    /\ conns[c].kind = "updatePassword"
    /\ conns[c].pc = "update"
    /\ IF ~IsString(conns[c].body.email) \/ UsersByEmail(conns[c].body.email.v) = {}
       THEN /\ conns' = [conns EXCEPT ![c] =
                  Answer(@, Res(500, "Failed to update password.", NoToken, NoUser))]
            /\ users' = users
       ELSE /\ users' = UpdatedUsers(conns[c].body.email.v, conns[c].hash)
            /\ conns' = [conns EXCEPT ![c] =
                  Answer(@, Res(200, "Password updated successfully.", NoToken, NoUser))]
    /\ UNCHANGED <<stores, ratings, nextUserId, nextStoreId, nextRatingId, roleEnum,
                   alive, dbResult>>

-----------------------------------------------------------------------------
(* POST /api/stores *)

\* the request arrives: prisma.store.create is awaited
RecvCreateStore(c, body) ==
    /\ alive
    /\ Free(c)
    /\ conns' = [conns EXCEPT ![c] = Start("createStore", body, "create")]
    /\ UNCHANGED <<dbVars, roleEnum, alive, dbResult>>

\* the INSERT fails: name is NOT NULL, ownerId must reference a User
StoreInsertFails(body) == ~IsString(body.name) \/ ~OwnerExists(body.ownerId)

\* prisma.store.create settles: 201 with the row, or the catch block's 500
StoreCreate(c) ==
    /\ alive
    /\ conns[c].kind = "createStore"
    /\ conns[c].pc = "create"
    /\ IF StoreInsertFails(conns[c].body)
       THEN /\ conns' = [conns EXCEPT ![c] =
                  Answer(@, Res(500, "An error occurred while creating the store.",
                                NoToken, NoUser))]
            /\ UNCHANGED <<stores, nextStoreId>>
       ELSE /\ nextStoreId <= MaxStoreId
            /\ LET row == [id |-> nextStoreId, name |-> conns[c].body.name.v,
                           ownerId |-> conns[c].body.ownerId] IN
                  /\ stores' = stores \cup {row}
                  /\ conns' = [conns EXCEPT ![c] =
                        Answer(@, [Res(201, "Store created successfully", NoToken, NoUser)
                                      EXCEPT !.store = row])]
            /\ nextStoreId' = nextStoreId + 1
    /\ UNCHANGED <<users, ratings, nextUserId, nextRatingId, roleEnum, alive, dbResult>>

-----------------------------------------------------------------------------
(* SQL statements on the schema, issued outside the handlers *)

Scores == {1, 5}

\* the outcome of a statement; seq tells one statement from the one before it
DbRes(stmt, key, outcome) ==
    [stmt |-> stmt, key |-> key, outcome |-> outcome, seq |-> 1 - dbResult.seq]

\* INSERT INTO User (name, email, password): role takes the column's DEFAULT,
\* 'USER' as created, 'NORMAL_USER' as altered
DbInsertUser(name, email, hash) ==
    /\ IF UserEmailTaken(email)
       THEN /\ dbResult' = DbRes("insertUser", <<>>, "duplicate")
            /\ UNCHANGED <<users, nextUserId>>
       ELSE /\ nextUserId <= MaxUserId
            /\ users' = users \cup
                  {[id |-> nextUserId, name |-> name, email |-> email, password |-> hash,
                    address |-> Undefined,
                    role |-> IF RoleUser \in roleEnum THEN RoleUser ELSE RoleNormalUser]}
            /\ nextUserId' = nextUserId + 1
            /\ dbResult' = DbRes("insertUser", <<>>, "ok")
    /\ UNCHANGED <<stores, ratings, nextStoreId, nextRatingId, roleEnum, conns, alive>>

\* INSERT INTO Rating (score, userId, storeId)
DbInsertRating(u, s, score) ==
    /\ IF ~(\E x \in users : x.id = u) \/ ~(\E x \in stores : x.id = s)
       THEN /\ dbResult' = DbRes("insertRating", <<u, s>>, "foreign key")
            /\ UNCHANGED <<ratings, nextRatingId>>
       ELSE IF RatingPairTaken(u, s)
       THEN /\ dbResult' = DbRes("insertRating", <<u, s>>, "duplicate")
            /\ UNCHANGED <<ratings, nextRatingId>>
       ELSE /\ nextRatingId <= MaxRatingId
            /\ ratings' = ratings \cup
                  {[id |-> nextRatingId, score |-> score, userId |-> u, storeId |-> s]}
            /\ nextRatingId' = nextRatingId + 1
            /\ dbResult' = DbRes("insertRating", <<u, s>>, "ok")
    /\ UNCHANGED <<users, stores, nextUserId, nextStoreId, roleEnum, conns, alive>>

\* the foreign key declared without RESTRICT semantics
UserDeleteRestricted_Never(u) == FALSE

\* Rating_userId_fkey ... ON DELETE RESTRICT
UserDeleteRestricted(u) == \E r \in ratings : r.userId = u

\* the foreign key declared ON DELETE CASCADE
StoresAfterUserDelete_Cascade(u) == {s \in stores : s.ownerId # u}

\* Store_ownerId_fkey ... ON DELETE SET NULL
StoresAfterUserDelete(u) ==
    {IF s.ownerId = u THEN [s EXCEPT !.ownerId = NoOwner] ELSE s : s \in stores}

\* DELETE FROM User WHERE id = u
DbDeleteUser(u) ==
    /\ \E x \in users : x.id = u
    /\ IF UserDeleteRestricted(u)
       THEN /\ dbResult' = DbRes("deleteUser", <<u>>, "foreign key")
            /\ UNCHANGED <<users, stores>>
       ELSE /\ users' = {x \in users : x.id # u}
            /\ stores' = StoresAfterUserDelete(u)
            /\ dbResult' = DbRes("deleteUser", <<u>>, "ok")
    /\ UNCHANGED <<ratings, nextUserId, nextStoreId, nextRatingId, roleEnum, conns,
                   alive>>

\* Rating_storeId_fkey ... ON DELETE RESTRICT
StoreDeleteRestricted(s) == \E r \in ratings : r.storeId = s

\* DELETE FROM Store WHERE id = s
DbDeleteStore(s) ==
    /\ \E x \in stores : x.id = s
    /\ IF StoreDeleteRestricted(s)
       THEN /\ dbResult' = DbRes("deleteStore", <<s>>, "foreign key")
            /\ UNCHANGED stores
       ELSE /\ stores' = {x \in stores : x.id # s}
            /\ dbResult' = DbRes("deleteStore", <<s>>, "ok")
    /\ UNCHANGED <<users, ratings, nextUserId, nextStoreId, nextRatingId, roleEnum,
                   conns, alive>>

\* DELETE FROM Rating WHERE id = r
DbDeleteRating(r) ==
    /\ \E x \in ratings : x.id = r
    /\ ratings' = {x \in ratings : x.id # r}
    /\ dbResult' = DbRes("deleteRating", <<r>>, "ok")
    /\ UNCHANGED <<users, stores, nextUserId, nextStoreId, nextRatingId, roleEnum,
                   conns, alive>>

-----------------------------------------------------------------------------
(* The server over an empty database *)

Init ==
    /\ users = {}
    /\ stores = {}
    /\ ratings = {}
    /\ nextUserId = 1
    /\ nextStoreId = 1
    /\ nextRatingId = 1
    /\ roleEnum \in {RoleEnumCreated, RoleEnumAltered}
    /\ conns = [c \in Conns |-> IdleConn]
    /\ alive = TRUE
    /\ dbResult = [stmt |-> "none", key |-> <<>>, outcome |-> "ok", seq |-> 0]

Next ==
    \E c \in Conns :
        \/ \E body \in RegisterBodies : RecvRegister(c, body)
        \/ RegisterHashed(c)
        \/ RegisterCreate(c)
        \/ \E body \in LoginBodies : RecvLogin(c, body)
        \/ LoginFind(c)
        \/ LoginCompare(c)
        \/ \E body \in UpdateBodies : RecvUpdatePassword(c, body)
        \/ UpdateHashed(c)
        \/ UpdateWrite(c)

Spec == Init /\ [][Next]_vars

-----------------------------------------------------------------------------
(* The server and SQL statements issued on its database directly *)

NextDb ==
    \/ \E e \in {EmailA, EmailB} : DbInsertUser(<<"N">>, e, BcryptHash(Str(PwE2E), 1))
    \/ \E body \in StoreBodies : RecvCreateStore(1, body)
    \/ StoreCreate(1)
    \/ \E u \in 1..MaxUserId, s \in 1..MaxStoreId, score \in Scores : DbInsertRating(u, s, score)
    \/ \E u \in 1..MaxUserId : DbDeleteUser(u)
    \/ \E s \in 1..MaxStoreId : DbDeleteStore(s)
    \/ \E r \in 1..MaxRatingId : DbDeleteRating(r)

SpecDb == Init /\ [][NextDb]_vars

-----------------------------------------------------------------------------
(* The server handling requests one at a time.  The client registers and    *)
(* then tries new passwords until one has been written: every arrangement   *)
(* of an uppercase letter, a special character and a line feed, followed by *)
(* 0..MaxPad lowercase letters, and three values that are no strings.       *)

PolicyPrefixes ==
    {<<>>, <<"A">>, <<"!">>, <<"\n">>,
     <<"A","!">>, <<"!","A">>, <<"A","\n">>, <<"\n","A">>, <<"!","\n">>, <<"\n","!">>,
     <<"A","!","\n">>, <<"A","\n","!">>, <<"!","A","\n">>, <<"!","\n","A">>,
     <<"\n","A","!">>, <<"\n","!","A">>}

Pad(k) == [i \in 1..k |-> "a"]

PolicyPasswords ==
    {Str(p \o Pad(k)) : p \in PolicyPrefixes, k \in 0..MaxPad}
    \cup {Undefined, Num(Digits8), Arr1(PwStrong)}

\* the client sends a new password while the registered one is still stored
TryNewPassword ==
    /\ \A u \in users : BcryptCompare(Str(PwE2E), u.password)
    /\ \E e \in {Undefined, Str(EmailA)}, p \in PolicyPasswords :
          RecvUpdatePassword(1, UpdateBody(e, p))

NextPolicy ==
    \/ RecvRegister(1, RegBody(Str(<<"A">>), Str(EmailA), Str(PwE2E), Undefined, Undefined))
    \/ RegisterHashed(1)
    \/ RegisterCreate(1)
    \/ TryNewPassword
    \/ UpdateHashed(1)
    \/ UpdateWrite(1)

SpecPolicy == Init /\ [][NextPolicy]_vars

-----------------------------------------------------------------------------
(* Steps and states the properties speak of *)

\* this step sends the response of the request on connection c
AnswersAt(c) == conns'[c] # conns[c] /\ conns'[c].pc = "done"

\* the handler of the request on c has ended, with or without a response
Ended(c) == conns[c].pc \in {"done", "unhandled"}

SameEmail(e, f) == CollationKey(e) = CollationKey(f)

-----------------------------------------------------------------------------
(* C1 *)

C1_UniqueEmail ==
    \A u, v \in users : SameEmail(u.email, v.email) => u = v

C1_OneWinner ==
    \A c, d \in Conns :
        /\ c # d
        /\ conns[c].kind = "register" /\ conns[c].res.status = 201
        /\ conns[d].kind = "register" /\ conns[d].res.status = 201
        => ~SameEmail(conns[c].body.email.v, conns[d].body.email.v)

C1_Step ==
    /\ \A c \in Conns :
          /\ conns'[c] # conns[c]
          /\ conns'[c].kind = "register"
          /\ conns'[c].pc \in {"done", "unhandled"}
          =>
          IF conns'[c].res.status = 201
          THEN \* the winner: no row had the email, and exactly its row is added
               /\ UsersByEmail(conns'[c].body.email.v) = {}
               /\ conns'[c].res.user \notin users
               /\ conns'[c].res.user.email = conns'[c].body.email.v
               /\ users' = users \cup {conns'[c].res.user}
          ELSE \* any other end of a register request leaves every row as it was
               users' = users
    \* a register request whose insert meets a row with its email gets the 500
    /\ \A c \in Conns :
          /\ conns[c].kind = "register"
          /\ conns[c].pc = "create"
          /\ conns'[c] # conns[c]
          /\ UsersByEmail(conns[c].body.email.v) # {}
          => /\ conns'[c].pc = "done"
             /\ conns'[c].res.status = 500
             /\ conns'[c].res.message = "An error occurred during registration."
    \* a row appears only as the row of a register request answered 201, and
    \* no row disappears or changes its name, email, address or role
    /\ \A row \in users' \ users :
          \/ \E c \in Conns : AnswersAt(c) /\ conns'[c].kind = "register"
                              /\ conns'[c].res.status = 201 /\ conns'[c].res.user = row
          \/ \E u \in users : row = [u EXCEPT !.password = row.password]
    /\ \A u \in users : \E v \in users' : v = [u EXCEPT !.password = v.password]

\* C1: for every email at most one register request ends with 201 and creates
\* a row; every other register request that reaches the insert with that email
\* gets the 500 error response and creates no row; the rows stay as they were;
\* no two User rows share an email (compared as the unique index compares).
C1_RegisterOncePerEmail ==
    /\ [](C1_UniqueEmail /\ C1_OneWinner)
    /\ [][C1_Step]_vars

\* two register requests with one email have ended, one with 201 and one with
\* 500, and the winner's row is in the table as it was answered
C1_Witness ==
    \E c, d \in Conns :
        /\ conns[c].kind = "register" /\ conns[c].pc = "done" /\ conns[c].res.status = 201
        /\ conns[d].kind = "register" /\ conns[d].pc = "done" /\ conns[d].res.status = 500
        /\ SameEmail(conns[c].body.email.v, conns[d].body.email.v)
        /\ conns[c].body.name # conns[d].body.name
        /\ conns[c].res.user \in users

-----------------------------------------------------------------------------
(* C2 *)

\* the password of the request on c does not match the hash of the row read
NoMatch(c) ==
    ~(IsString(conns[c].body.password)
      /\ BcryptCompare(conns[c].body.password, conns[c].user.password))

\* C2: a login whose email has no User row and a login whose email has a row
\* but whose password does not match its hash get the same response: 401,
\* 'Invalid credentials.', no token.
C2_LoginFailuresAlike ==
    [][\A c \in Conns :
          /\ AnswersAt(c)
          /\ conns[c].kind = "login"
          /\ IsString(conns[c].body.email)
          /\ \/ conns[c].pc = "find" /\ UsersByEmail(conns[c].body.email.v) = {}
             \/ conns[c].pc = "compare" /\ NoMatch(c)
          => conns'[c].res = Res(401, "Invalid credentials.", NoToken, NoUser)]_vars

-----------------------------------------------------------------------------
(* C3 *)

\* C3: with no user for email e, a register request with name, e and password
\* all present returns 201; a later login with these credentials returns 200
\* with a token that carries the id and role of the row and expires in 1 hour.
C3_RegisterThenLogin ==
    /\ \A c \in Conns :
          /\ conns[c].kind = "register"
          /\ ~RegisterMissing(conns[c].body)
          /\ Ended(c)
          /\ conns[c].res.status # 201
          => UsersByEmail(conns[c].body.email.v) # {}
    /\ \A c \in Conns :
          /\ conns[c].kind = "login"
          /\ conns[c].pc = "done"
          /\ conns[c].res.status = 200
          => /\ conns[c].res.token # NoToken
             /\ conns[c].res.token.userId = conns[c].res.user.id
             /\ conns[c].res.token.role = conns[c].res.user.role
             /\ conns[c].res.token.expiresIn = 3600

-----------------------------------------------------------------------------
(* C10 *)

RegisterResponses ==
    {<<201, "User registered successfully">>,
     <<400, "Name, email, and password are required.">>,
     <<500, "An error occurred during registration.">>}

\* C10: every register request gets one response, 201, 400 or 500 with the
\* handler's message, also when hashing the password fails; a request answered
\* 400 or 500 creates no row.
C10_RegisterAlwaysAnswered ==
    \A c \in Conns :
        conns[c].kind = "register" /\ conns[c].pc \notin {"hash", "create"}
        => /\ conns[c].pc = "done"
           /\ <<conns[c].res.status, conns[c].res.message>> \in RegisterResponses
           /\ conns[c].res.status # 201 => conns[c].res.user = NoUser

-----------------------------------------------------------------------------
(* C5 *)

\* the string passwords of the request bodies
SamplePasswords == {PwE2E, PwWeak, PwStrong}

\* row v is row u with its password replaced by a hash of n and of no other
\* sample password
Rehashed(u, v, n) ==
    /\ v = [u EXCEPT !.password = v.password]
    /\ BcryptCompare(n, v.password)
    /\ \A old \in SamplePasswords : old # n.v => ~BcryptCompare(Str(old), v.password)

C5_Step ==
    \A c \in Conns :
        /\ \* an update answered 200 rehashed the row of its email and only that
           /\ AnswersAt(c)
           /\ conns[c].kind = "updatePassword"
           /\ conns'[c].res.status = 200
           => /\ UsersByEmail(conns[c].body.email.v) # {}
              /\ \A u \in users :
                    IF SameEmail(u.email, conns[c].body.email.v)
                    THEN \E v \in users' : Rehashed(u, v, conns[c].body.newPassword)
                    ELSE u \in users'
              /\ Cardinality(users') = Cardinality(users)
              /\ UNCHANGED <<stores, ratings>>
        /\ \* an update that ends otherwise changes nothing
           /\ conns'[c] # conns[c]
           /\ conns'[c].kind = "updatePassword"
           /\ conns'[c].res.status # 200
           => UNCHANGED dbVars
        /\ \* an update whose write finds no row for its email gets 500
           /\ conns[c].kind = "updatePassword"
           /\ conns[c].pc = "update"
           /\ conns'[c] # conns[c]
           /\ UsersByEmail(conns[c].body.email.v) = {}
           => conns'[c].pc = "done" /\ conns'[c].res.status = 500
        /\ \* a login reads the row stored for its email
           /\ conns[c].kind = "login"
           /\ conns[c].pc = "find"
           /\ conns'[c].pc = "compare"
           => /\ conns'[c].user \in users
              /\ SameEmail(conns'[c].user.email, conns[c].body.email.v)
        /\ \* and is answered 200 when its password is the one the row's hash
           \* was made from, 401 when it is another string
           /\ AnswersAt(c)
           /\ conns[c].kind = "login"
           /\ conns[c].pc = "compare"
           /\ IsString(conns[c].body.password)
           => conns'[c].res.status =
                 IF conns[c].user.password.key = conns[c].body.password.v THEN 200 ELSE 401

\* C5: an update-password answered 200 stores a hash of the new password in
\* the row of its email and changes nothing else; a login that reads the row
\* afterwards gets 200 with the new password and 401 with the previous one; an
\* update for an email without a row gets 500 and changes nothing.
C5_UpdateThenLogin == [][C5_Step]_vars

\* an update has been answered 200, a second user exists, and a login with the
\* new password has been answered 200
C5_Witness ==
    \E c, d \in Conns :
        /\ conns[c].kind = "updatePassword" /\ conns[c].pc = "done"
        /\ conns[c].res.status = 200
        /\ conns[d].kind = "login" /\ conns[d].pc = "done" /\ conns[d].res.status = 200
        /\ conns[d].body.password = conns[c].body.newPassword
        /\ SameEmail(conns[d].body.email.v, conns[c].body.email.v)
        /\ conns[d].res.user \in users
        /\ Cardinality(users) = 2

-----------------------------------------------------------------------------
(* C6 *)

\* C6: every row register creates has role USER whatever role the body asked
\* for, so every stored user and every token login issues carries role USER.
C6_RoleAlwaysUser ==
    /\ \A u \in users : u.role = <<"U","S","E","R">>
    /\ \A c \in Conns :
          /\ conns[c].kind = "register" /\ conns[c].res.status = 201
             => conns[c].res.user.role = <<"U","S","E","R">>
          /\ conns[c].kind = "login" /\ conns[c].res.status = 200
             => conns[c].res.token.role = <<"U","S","E","R">>

\* a register that asked for ADMIN was answered 201 and a login of that user
\* was answered 200
C6_Witness ==
    \E c, d \in Conns :
        /\ conns[c].kind = "register" /\ conns[c].res.status = 201
        /\ conns[c].body.role = Str(RoleAdmin)
        /\ conns[d].kind = "login" /\ conns[d].res.status = 200
        /\ conns[d].res.token.userId = conns[c].res.user.id

-----------------------------------------------------------------------------
(* C4 *)

HasUpper(s) == \E i \in 1..Len(s) : s[i] \in UpperChars
HasSpecial(s) == \E i \in 1..Len(s) : s[i] \in SpecialChars
HasLineTerminator(s) == \E i \in 1..Len(s) : s[i] \in LineTerminators

\* the update-password request on c ended at its validation
Rejected(c) == conns[c].pc = "done" /\ conns[c].res.status = 400

\* a validation's 400 leaves every row as it was
C4_RejectedStep ==
    \A c \in Conns :
        /\ AnswersAt(c)
        /\ conns'[c].kind = "updatePassword"
        /\ conns'[c].res.status = 400
        => UNCHANGED dbVars

\* C4 as stated: a new password is accepted exactly when it has 8 to 16
\* characters, an uppercase letter and a special character.
C4_PolicyAsStated ==
    \A c \in Conns :
        /\ conns[c].kind = "updatePassword"
        /\ Truthy(conns[c].body.email)
        /\ IsString(conns[c].body.newPassword)
        => LET s == conns[c].body.newPassword.v IN
              ~Rejected(c) <=> (Len(s) >= 8 /\ Len(s) <= 16 /\ HasUpper(s) /\ HasSpecial(s))

C4_PolicyExact ==
    \A c \in Conns :
        /\ conns[c].kind = "updatePassword"
        /\ Truthy(conns[c].body.email)
        /\ IsString(conns[c].body.newPassword)
        => LET s == conns[c].body.newPassword.v IN
              ~Rejected(c) <=> (/\ Len(s) >= 8 /\ Len(s) <= 16
                                /\ HasUpper(s) /\ HasSpecial(s)
                                /\ ~HasLineTerminator(s))

\* C4, amended: a string is accepted as new password exactly when it has 8 to
\* 16 characters, none of them a line terminator, an uppercase letter A-Z and
\* one of the special characters of the pattern; a rejected one is answered
\* 400 and no row changes.
C4_PolicyAmended == []C4_PolicyExact /\ [][C4_RejectedStep]_vars

\* with a user stored, a new password of 8 to 16 characters with an uppercase
\* letter, a special character and a line feed has been answered 400
C4_Witness ==
    /\ users # {}
    /\ \E c \in Conns :
          /\ conns[c].kind = "updatePassword"
          /\ Rejected(c)
          /\ conns[c].res.message = "Password does not meet the security requirements."
          /\ LET s == conns[c].body.newPassword.v IN
                /\ IsString(conns[c].body.newPassword)
                /\ Len(s) >= 8 /\ Len(s) <= 16 /\ HasUpper(s) /\ HasSpecial(s)
                /\ HasLineTerminator(s)

-----------------------------------------------------------------------------
(* C7 *)

\* this step is the SQL statement stmt with the key given
Statement(stmt, key) ==
    dbResult' # dbResult /\ dbResult'.stmt = stmt /\ dbResult'.key = key

C7_OnePerPair ==
    \A r, q \in ratings : r.userId = q.userId /\ r.storeId = q.storeId => r = q

C7_Step ==
    \A u \in 1..MaxUserId, s \in 1..MaxStoreId :
        /\ Statement("insertRating", <<u, s>>)
        /\ \E r \in ratings : r.userId = u /\ r.storeId = s
        => /\ dbResult'.outcome = "duplicate"
           /\ UNCHANGED <<ratings, nextRatingId>>

\* C7: there is at most one Rating row per (userId, storeId); an insert with
\* the pair of an existing row is rejected and leaves the table as it was.
C7_OneRatingPerUserAndStore == []C7_OnePerPair /\ [][C7_Step]_vars

\* an insert has been rejected as a duplicate of the stored row, which it
\* would have given another score
C7_Witness ==
    /\ dbResult.stmt = "insertRating"
    /\ dbResult.outcome = "duplicate"
    /\ \E r \in ratings : <<r.userId, r.storeId>> = dbResult.key

-----------------------------------------------------------------------------
(* C8 *)

C8_OwnerValid ==
    \A s \in stores : s.ownerId = 0 \/ \E u \in users : u.id = s.ownerId

C8_Step ==
    \A u \in 1..MaxUserId :
        /\ Statement("deleteUser", <<u>>)
        /\ \E s \in stores : s.ownerId = u
        /\ ~\E r \in ratings : r.userId = u
        => /\ dbResult'.outcome = "ok"
           /\ users' = {x \in users : x.id # u}
           /\ \A s \in stores :
                 \E t \in stores' :
                    /\ t.id = s.id
                    /\ t.name = s.name
                    /\ t.ownerId = IF s.ownerId = u THEN 0 ELSE s.ownerId
           /\ Cardinality(stores') = Cardinality(stores)
           /\ UNCHANGED ratings

\* C8: deleting a User who owns Stores and has no Ratings succeeds, keeps the
\* Store rows and sets their ownerId to null, other fields and other stores
\* unchanged; every Store.ownerId is null or the id of an existing User.
C8_OwnerSetNullOnDelete == []C8_OwnerValid /\ [][C8_Step]_vars

\* a store created with owner u is still stored, without owner, after the
\* delete of user u succeeded
C8_Witness ==
    /\ dbResult.stmt = "deleteUser"
    /\ dbResult.outcome = "ok"
    /\ \E c \in Conns :
          /\ conns[c].kind = "createStore"
          /\ conns[c].res.status = 201
          /\ <<conns[c].res.store.ownerId>> = dbResult.key
          /\ [conns[c].res.store EXCEPT !.ownerId = 0] \in stores
    /\ ~\E x \in users : <<x.id>> = dbResult.key

-----------------------------------------------------------------------------
(* C9 *)

C9_RatingUserExists ==
    \A r \in ratings : \E u \in users : u.id = r.userId

C9_Step ==
    \A u \in 1..MaxUserId :
        /\ Statement("deleteUser", <<u>>)
        /\ \E r \in ratings : r.userId = u
        => /\ dbResult'.outcome = "foreign key"
           /\ UNCHANGED <<users, ratings, stores>>

\* C9: deleting a User who has a Rating is rejected, and the User, the Ratings
\* and the Stores stay as they were; every Rating.userId is the id of a User.
C9_DeleteRestrictedByRatings == []C9_RatingUserExists /\ [][C9_Step]_vars

\* the delete of a user with a rating and a store has been rejected; the
\* user, the rating and the store's owner are still there
C9_Witness ==
    /\ dbResult.stmt = "deleteUser"
    /\ dbResult.outcome = "foreign key"
    /\ \E x \in users : <<x.id>> = dbResult.key
    /\ \E r \in ratings : <<r.userId>> = dbResult.key
    /\ \E s \in stores : <<s.ownerId>> = dbResult.key

====
